---- MODULE Spec2Model ----
(***************************************************************************)
(* Model of rust-ffi/src/lib.rs: the C-callable wrappers around the zmij   *)
(* float formatter and the itoa integer formatter.                         *)
(*                                                                         *)
(* Memory is a byte array indexed by address.  Address 0 is the null       *)
(* pointer.  The caller's allocation sits between two guard regions; the   *)
(* formatter's static literals "NaN", "inf", "-inf" live at addresses of   *)
(* their own.  A call runs in three steps: the entry point's guard, the    *)
(* formatter writing into the reinterpreted buffer, and the pointer        *)
(* comparison / copy / return.                                             *)
(*                                                                         *)
(* Spec      single calls with any value, pointer and length;              *)
(* SeqSpec   sequences of valid calls on one buffer;                       *)
(* ConcSpec  concurrent calls, each context on a buffer of its own;        *)
(* CopySpec  the copy step, with the formatter's span as an input.         *)
(***************************************************************************)
EXTENDS Integers, Sequences, FiniteSets, TLC

\* mem      memory, by address
\* mem0     memory as it was when the call under way was made
\* pc ... ret   the call under way: position, entry point, arguments, the
\*          formatter's span, the value returned
\* ncalls   calls made so far
\* prev     the result the caller keeps of the call before (SeqSpec)
\* ctx      the calls of the concurrent contexts (ConcSpec)
VARIABLES mem, mem0, pc, op, value, buf, buf_len, bytes, ret, ncalls, prev,
          ctx

vars == <<mem, mem0, pc, op, value, buf, buf_len, bytes, ret, ncalls, prev,
          ctx>>

(***************************************************************************)
(* Bounds of the model.                                                    *)
(***************************************************************************)
GuardLen == 2   \* guard bytes before and after the caller's allocation
MaxExtra == 1   \* how far buf_len may exceed a minimum size
MaxCalls == 1   \* calls made one after the other on the same memory
MaxSeq   == 2   \* length of a sequence of calls on the same buffer
NThreads == 2   \* execution contexts that call concurrently

(***************************************************************************)
(* Integer types and program constants.                                    *)
(***************************************************************************)
IntTypes == {"i64", "u64", "i32", "u32"}

\* <I as itoa::Integer>::MAX_STR_LEN
MaxStrLen(ty) ==
    CASE ty = "i64" -> 20
      [] ty = "u64" -> 20
      [] ty = "i32" -> 11
      [] ty = "u32" -> 10

\* Faulty variant: a minimum just large enough for the 64-bit types.
ITOA_BUFFER_SIZE_Tight == MaxStrLen("i64")

\* const ITOA_BUFFER_SIZE: usize = 40
ITOA_BUFFER_SIZE == 40

\* std::mem::size_of::<zmij::Buffer>()
ZMIJ_BUFFER_SIZE == 24

NULL == 0

(***************************************************************************)
(* Entry points.                                                           *)
(***************************************************************************)
CheckedOps == {"zmij_format_f64", "zmij_format_f32"}
FiniteOps  == {"zmij_format_finite_f64", "zmij_format_finite_f32"}
FloatOps   == CheckedOps \cup FiniteOps
ItoaOps    == {"rust_itoa_i64", "rust_itoa_u64", "rust_itoa_i32", "rust_itoa_u32"}
Ops        == FloatOps \cup ItoaOps

IntType(o) ==
    CASE o = "rust_itoa_i64" -> "i64"
      [] o = "rust_itoa_u64" -> "u64"
      [] o = "rust_itoa_i32" -> "i32"
      [] o = "rust_itoa_u32" -> "u32"

(***************************************************************************)
(* Memory layout.                                                          *)
(***************************************************************************)
Base       == GuardLen + 1
BufCap     == ITOA_BUFFER_SIZE + MaxExtra
StaticBase == Base + BufCap + GuardLen
NanAddr    == StaticBase
InfAddr    == StaticBase + 3
NegInfAddr == StaticBase + 6
MemTop     == StaticBase + 9
Addrs      == 1..MemTop

NanBytes    == <<78, 97, 78>>
InfBytes    == <<105, 110, 102>>
NegInfBytes == <<45, 105, 110, 102>>

ReadBytes(m, at, n) == [i \in 1..n |-> m[at + i - 1]]

WriteBytes(m, at, txt) ==
    [a \in DOMAIN m |->
        IF a >= at /\ a < at + Len(txt) THEN txt[a - at + 1] ELSE m[a]]

\* The caller's memory before the first call: a uniform fill, or a pattern
\* in which neighbouring bytes differ.
InitialMem(fill) ==
    [a \in Addrs |->
        IF a >= NanAddr /\ a < InfAddr THEN NanBytes[a - NanAddr + 1]
        ELSE IF a >= InfAddr /\ a < NegInfAddr THEN InfBytes[a - InfAddr + 1]
        ELSE IF a >= NegInfAddr THEN NegInfBytes[a - NegInfAddr + 1]
        ELSE IF fill = 0 THEN 128 + (a % 64)
        ELSE fill]

Fills == {0, 57, 170}

(***************************************************************************)
(* Integers.  A value of an integer type is its two's-complement bit       *)
(* pattern, held as 16-bit limbs, least significant first: 4 limbs for the *)
(* 64-bit types and 2 for the 32-bit ones.                                 *)
(***************************************************************************)
LimbBase == 2^16
LimbMax  == LimbBase - 1
SignBit  == 2^15

Signed(ty) == ty \in {"i64", "i32"}
Limbs(ty)  == IF ty \in {"i64", "u64"} THEN 4 ELSE 2

IsZero(n) == \A i \in 1..Len(n) : n[i] = 0

IsNegative(ty, v) == Signed(ty) /\ v[Len(v)] >= SignBit

RECURSIVE AddOne(_)
AddOne(n) ==
    IF n = <<>> THEN <<>>
    ELSE IF Head(n) = LimbMax THEN <<0>> \o AddOne(Tail(n))
    ELSE <<Head(n) + 1>> \o Tail(n)

\* (!(self as uN)).wrapping_add(1)
WrappingNeg(n) == AddOne([i \in 1..Len(n) |-> LimbMax - n[i]])

\* The remainder, modulo 10, of the limbs above limb i.
RECURSIVE RemAbove(_, _)
RemAbove(n, i) ==
    IF i >= Len(n) THEN 0
    ELSE (RemAbove(n, i + 1) * LimbBase + n[i + 1]) % 10

Div10(n) == [i \in 1..Len(n) |-> (RemAbove(n, i) * LimbBase + n[i]) \div 10]
Mod10(n) == (RemAbove(n, 1) * LimbBase + n[1]) % 10

\* Decimal digits of an unsigned magnitude, most significant first.
RECURSIVE DecDigits(_)
DecDigits(n) ==
    LET q == Div10(n)
    IN  IF IsZero(q) THEN <<Mod10(n)>> ELSE Append(DecDigits(q), Mod10(n))

Ascii(digits) == [i \in 1..Len(digits) |-> 48 + digits[i]]

\* The text itoa produces for the value v of type ty.
ItoaText(ty, v) ==
    IF IsNegative(ty, v)
    THEN <<45>> \o Ascii(DecDigits(WrappingNeg(v)))
    ELSE Ascii(DecDigits(v))

\* Where the digits end inside the 40-byte itoa::Buffer: the buffer is
\* reinterpreted as the type's own MAX_STR_LEN array, or used whole.
ItoaEnds(ty) == {MaxStrLen(ty), ITOA_BUFFER_SIZE}

\* itoa::Buffer::format: the text is written right-aligned so that it ends
\* at offset `end` of the buffer at b; the returned str points at its first
\* byte.  Bytes of the buffer outside the text are not written.
ItoaBufferFormat(m, b, ty, v, end) ==
    LET text == ItoaText(ty, v)
        at   == b + end - Len(text)
    IN  [mem |-> WriteBytes(m, at, text), ptr |-> at, len |-> Len(text)]

(***************************************************************************)
(* str::parse for the integer types (core::num::from_str_radix, radix 10). *)
(***************************************************************************)
Failed == [ok |-> FALSE, val |-> <<>>]
Parsed(v) == [ok |-> TRUE, val |-> v]

\* The carry into limb i of n * 10 + d.
RECURSIVE CarryInto(_, _, _)
CarryInto(n, d, i) ==
    IF i = 1 THEN d
    ELSE (n[i - 1] * 10 + CarryInto(n, d, i - 1)) \div LimbBase

MulAdd10(n, d) == [i \in 1..Len(n) |-> (n[i] * 10 + CarryInto(n, d, i)) % LimbBase]
MulAddOverflows(n, d) == CarryInto(n, d, Len(n) + 1) > 0

\* checked_mul(10) then checked_add(digit), digit by digit.
RECURSIVE ParseMagnitude(_, _, _)
ParseMagnitude(txt, i, acc) ==
    IF i > Len(txt) THEN Parsed(acc)
    ELSE IF txt[i] \notin 48..57 THEN Failed
    ELSE IF MulAddOverflows(acc, txt[i] - 48) THEN Failed
    ELSE ParseMagnitude(txt, i + 1, MulAdd10(acc, txt[i] - 48))

ZeroOf(ty) == [i \in 1..Limbs(ty) |-> 0]
MinOf(ty)  == [i \in 1..Limbs(ty) |-> IF i = Limbs(ty) THEN SignBit ELSE 0]

\* <ty as FromStr>::from_str: an optional sign ('-' only for the signed
\* types), then decimal digits; out-of-range values are errors.
ParseInt(ty, txt) ==
    IF Len(txt) = 0 THEN Failed
    ELSE IF txt[1] \in {43, 45} /\ Len(txt) = 1 THEN Failed
    ELSE IF txt[1] = 45 /\ ~Signed(ty) THEN Failed
    ELSE LET neg   == txt[1] = 45
             first == IF txt[1] \in {43, 45} THEN 2 ELSE 1
             mag   == ParseMagnitude(txt, first, ZeroOf(ty))
         IN  IF ~mag.ok THEN Failed
             ELSE IF ~Signed(ty) THEN mag
             ELSE IF ~neg
                  THEN (IF mag.val[Limbs(ty)] >= SignBit THEN Failed ELSE mag)
             ELSE IF mag.val[Limbs(ty)] >= SignBit /\ mag.val # MinOf(ty)
                  THEN Failed
             ELSE Parsed(WrappingNeg(mag.val))

(***************************************************************************)
(* Floats.  A value is NaN, an infinity, or the finite number              *)
(* (-1)^neg * mant * 2^exp with mant odd (or mant = 0, exp = 0 for the two *)
(* zeros).  The finite values of the model are those whose shortest        *)
(* round-trip text is their exact decimal expansion in fixed notation.     *)
(***************************************************************************)
Fin(neg, mant, exp) == [cls |-> "fin", neg |-> neg, mant |-> mant, exp |-> exp]
NaN(neg)            == [cls |-> "nan", neg |-> neg, mant |-> 1, exp |-> 0]
Inf(neg)            == [cls |-> "inf", neg |-> neg, mant |-> 0, exp |-> 0]

IsFinite(v) == v.cls = "fin"

\* Float::format_nonfinite
NonfiniteLiteral(v) ==
    IF v.cls = "nan" THEN [ptr |-> NanAddr, len |-> 3]
    ELSE IF v.neg THEN [ptr |-> NegInfAddr, len |-> 4]
    ELSE [ptr |-> InfAddr, len |-> 3]

IntPart(v)  == IF v.exp >= 0 THEN v.mant * 2^v.exp ELSE v.mant \div 2^(-v.exp)
FracNum(v)  == IF v.exp >= 0 THEN 0 ELSE v.mant % 2^(-v.exp)
FracDen(v)  == IF v.exp >= 0 THEN 1 ELSE 2^(-v.exp)

RECURSIVE NatDigits(_)
NatDigits(n) ==
    IF n < 10 THEN <<n>> ELSE Append(NatDigits(n \div 10), n % 10)

\* The decimal digits of r / den, 0 <= r < den, den a power of two.
RECURSIVE FracDigits(_, _)
FracDigits(r, den) ==
    IF r = 0 THEN <<>>
    ELSE <<(r * 10) \div den>> \o FracDigits((r * 10) % den, den)

\* The text zmij produces for a finite value: sign, integer digits, '.',
\* fraction digits ("0" when the value is integral).
ZmijText(v) ==
    LET frac == FracDigits(FracNum(v), FracDen(v))
    IN  (IF v.neg THEN <<45>> ELSE <<>>)
        \o Ascii(NatDigits(IntPart(v)))
        \o <<46>>
        \o Ascii(IF frac = <<>> THEN <<0>> ELSE frac)

\* How far into its 24 bytes the formatter's wide stores reach when it
\* writes the text of v: no further than the text, or to the end of the
\* buffer.  (A non-finite value on the checked path writes nothing.)
ZmijScratchEnds(v) ==
    IF IsFinite(v) THEN {Len(ZmijText(v)), ZMIJ_BUFFER_SIZE} ELSE {ZMIJ_BUFFER_SIZE}

\* zmij::Buffer::format_finite: the text is written at the start of the
\* buffer at b; bytes between the text and `scratch` are overwritten too.
ZmijBufferFormatFinite(m, b, v, scratch) ==
    LET text == ZmijText(v)
        junk == [i \in 1..(scratch - Len(text)) |-> 48]
    IN  [mem |-> WriteBytes(m, b, text \o junk), ptr |-> b, len |-> Len(text)]

\* Texts format_finite may leave when its value is not finite: the digits
\* are unspecified, the text is not empty and lies in the buffer.
UnspecifiedTexts ==
    { <<50>>,
      <<49, 46, 56, 101, 51, 48, 56>>,
      [i \in 1..ZMIJ_BUFFER_SIZE |-> 48 + (i % 10)] }

\* zmij::Buffer::format_finite on NaN or an infinity: a safe function, so
\* it writes inside its own 24 bytes and returns a str borrowed from them.
ZmijBufferFormatBreach(m, b, txt, scratch) ==
    LET junk == [i \in 1..(scratch - Len(txt)) |-> 48]
    IN  [mem |-> WriteBytes(m, b, txt \o junk), ptr |-> b, len |-> Len(txt)]

\* zmij::Buffer::format: a static literal for NaN and the infinities (the
\* buffer is not touched), format_finite otherwise.
ZmijBufferFormat(m, b, v, scratch) ==
    IF ~IsFinite(v)
    THEN [mem |-> m, ptr |-> NonfiniteLiteral(v).ptr, len |-> NonfiniteLiteral(v).len]
    ELSE ZmijBufferFormatFinite(m, b, v, scratch)

(***************************************************************************)
(* str::parse for the float types, on fixed-notation text.  The digits     *)
(* give N / 10^k; the result is the float equal to it.  A text that is not *)
(* fixed notation of at most 9 significant digits, or whose value is not   *)
(* mant * 2^exp exactly, lies outside the model and is reported as failed. *)
(***************************************************************************)
RECURSIVE DigitsValue(_, _, _)
DigitsValue(txt, i, acc) ==
    IF i > Len(txt) THEN acc
    ELSE IF txt[i] = 46 THEN DigitsValue(txt, i + 1, acc)
    ELSE DigitsValue(txt, i + 1, acc * 10 + (txt[i] - 48))

\* Trailing zeros of the fraction carry no value.
RECURSIVE StripFractionZeros(_)
StripFractionZeros(txt) ==
    IF /\ Len(txt) > 0
       /\ txt[Len(txt)] = 48
       /\ \E i \in 1..Len(txt) : txt[i] = 46
    THEN StripFractionZeros(SubSeq(txt, 1, Len(txt) - 1))
    ELSE txt

RECURSIVE Normalize(_, _, _)
Normalize(neg, mant, exp) ==
    IF mant = 0 THEN Fin(neg, 0, 0)
    ELSE IF mant % 2 = 0 THEN Normalize(neg, mant \div 2, exp + 1)
    ELSE Fin(neg, mant, exp)

ParseFloat(txt) ==
    LET neg    == Len(txt) > 0 /\ txt[1] = 45
        signless == IF neg THEN SubSeq(txt, 2, Len(txt)) ELSE txt
        body   == StripFractionZeros(signless)
        points == {i \in 1..Len(body) : body[i] = 46}
        dot    == IF points = {} THEN Len(body) + 1
                  ELSE CHOOSE i \in points : \A j \in points : i <= j
        k      == IF points = {} THEN 0 ELSE Len(body) - dot
        wellformed ==
            /\ Cardinality(points) <= 1
            /\ \A i \in 1..Len(signless) :
                    signless[i] \in 48..57 \/ signless[i] = 46
            /\ \E i \in 1..Len(signless) : signless[i] \in 48..57
            /\ Len(body) - Cardinality(points) <= 9
    IN  IF ~wellformed THEN Failed
        ELSE LET n == DigitsValue(body, 1, 0)
             IN  IF n % (5^k) # 0 THEN Failed
                 ELSE Parsed(Normalize(neg, n \div (5^k), -k))

(***************************************************************************)
(* The values the calls are made with.                                     *)
(***************************************************************************)
F64Finite ==
    { Fin(FALSE, 0, 0), Fin(TRUE, 0, 0), Fin(FALSE, 1, 0), Fin(TRUE, 1, 0),
      Fin(FALSE, 1, -1), Fin(TRUE, 85, -1), Fin(FALSE, 25, 2),
      Fin(FALSE, 3, -3), Fin(FALSE, 123456789, 0) }

F32Finite ==
    { Fin(FALSE, 0, 0), Fin(TRUE, 0, 0), Fin(FALSE, 1, 0), Fin(TRUE, 1, 0),
      Fin(FALSE, 1, -1), Fin(TRUE, 85, -1), Fin(FALSE, 25, 2),
      Fin(TRUE, 5, -2), Fin(FALSE, 1, 10) }

Nonfinite == { NaN(FALSE), NaN(TRUE), Inf(FALSE), Inf(TRUE) }

I64Values ==
    { <<0, 0, 0, 0>>, <<1, 0, 0, 0>>, <<42, 0, 0, 0>>, <<16960, 15, 0, 0>>,
      <<65535, 65535, 65535, 65535>>, <<65494, 65535, 65535, 65535>>,
      <<65535, 65535, 65535, 32767>>, <<0, 0, 0, 32768>> }

U64Values ==
    { <<0, 0, 0, 0>>, <<42, 0, 0, 0>>, <<58367, 21515, 2, 0>>,
      <<0, 0, 0, 32768>>, <<65535, 65535, 65535, 65535>> }

I32Values ==
    { <<0, 0>>, <<42, 0>>, <<65535, 65535>>, <<65494, 65535>>,
      <<65535, 32767>>, <<0, 32768>> }

U32Values ==
    { <<0, 0>>, <<42, 0>>, <<57920, 1>>, <<0, 32768>>, <<65535, 65535>> }

BufPtrs == {NULL, Base}

Lens ==
    {0, 1} \cup {MaxStrLen(ty) : ty \in IntTypes}
           \cup ((ZMIJ_BUFFER_SIZE - 1)..(ZMIJ_BUFFER_SIZE + MaxExtra))
           \cup ((ITOA_BUFFER_SIZE - 1)..(ITOA_BUFFER_SIZE + MaxExtra))

NoBytes == [ptr |-> NULL, len |-> 0]
NoRet  == -1

\* What the caller keeps of a call that has returned.
NoPrev == [op |-> "none", value |-> <<>>, ret |-> NoRet, out |-> <<>>]

(***************************************************************************)
(* The wrappers' own code.                                                 *)
(***************************************************************************)
\* Faulty variants of the guard: without the null test, accepting a buffer
\* one byte short, and without the length test.
Rejects_NoNullCheck(b, n, min) == n < min
Rejects_OffByOne(b, n, min) == b = NULL \/ n + 1 < min
Rejects_NoLenCheck(b, n, min) == b = NULL

\* if buf.is_null() || buf_len < <minimum> { return 0; }
Rejects(b, n, min) == b = NULL \/ n < min

\* Faulty variant: source and destination exchanged.
CopyFromSlice_Swapped(m, src, dst, n) == WriteBytes(m, src, ReadBytes(m, dst, n))

\* The byte ranges [src, src + n) and [dst, dst + n) have a byte in common.
Overlaps(src, dst, n) == n > 0 /\ src < dst + n /\ dst < src + n

\* out[..bytes.len()].copy_from_slice(bytes): ptr::copy_nonoverlapping, for
\* ranges that do not overlap.  (With overlapping ranges its behaviour is
\* undefined: see CheckedFinish.)
CopyFromSlice(m, src, dst, n) == WriteBytes(m, dst, ReadBytes(m, src, n))

\* Faulty variant: a copy that runs from the last byte to the first, reading
\* bytes it has already overwritten when the ranges overlap.
RECURSIVE PtrCopy_Backward(_, _, _, _)
PtrCopy_Backward(m, src, dst, n) ==
    IF n = 0 THEN m
    ELSE PtrCopy_Backward([m EXCEPT ![dst + n - 1] = m[src + n - 1]], src, dst, n - 1)

\* std::ptr::copy(bytes.as_ptr(), buf, bytes.len()): as if through a
\* temporary, so overlapping ranges are copied correctly.
PtrCopy(m, src, dst, n) == WriteBytes(m, dst, ReadBytes(m, src, n))

\* Faulty variants: the copy is never made; the copy is always made.
NeedsCopy_Never(sp, b) == FALSE
NeedsCopy_Always(sp, b) == TRUE

\* if bytes.as_ptr() != buf as *const u8
NeedsCopy(sp, b) == sp.ptr # b

Returned(m, n) == [mem |-> m, ret |-> n, panicked |-> FALSE, undefined |-> FALSE]
Panicked(m)    == [mem |-> m, ret |-> NoRet, panicked |-> TRUE, undefined |-> FALSE]
Undefined(m)   == [mem |-> m, ret |-> NoRet, panicked |-> FALSE, undefined |-> TRUE]

\* Faulty variant: the length of the destination is returned, not that of
\* the text.
CheckedFinish_ReturnsBufLen(m, b, n, sp) ==
    IF NeedsCopy(sp, b)
    THEN Returned(CopyFromSlice(m, sp.ptr, b, sp.len), n)
    ELSE Returned(m, n)

\* The checked float entry points after the formatter has returned: the
\* slice index out[..bytes.len()] panics when it is out of range, and
\* copy_from_slice has undefined behaviour when `bytes` overlaps the
\* destination.
CheckedFinish(m, b, n, sp) ==
    IF NeedsCopy(sp, b)
    THEN IF sp.len > n THEN Panicked(m)
         ELSE IF Overlaps(sp.ptr, b, sp.len) THEN Undefined(m)
         ELSE Returned(CopyFromSlice(m, sp.ptr, b, sp.len), sp.len)
    ELSE Returned(m, sp.len)

\* Faulty variant: the offset of the text in the destination is returned,
\* not its length.
FiniteFinish_ReturnsOffset(m, b, n, sp) == Returned(m, sp.ptr - b)

\* The finite-only entry points: bytes.len(), nothing else.
FiniteFinish(m, b, n, sp) == Returned(m, sp.len)

\* Faulty variant: the length of the destination is returned, not that of
\* the text.
ItoaFinish_ReturnsBufLen(m, b, n, sp) ==
    IF NeedsCopy(sp, b)
    THEN Returned(PtrCopy(m, sp.ptr, b, sp.len), n)
    ELSE Returned(m, n)

\* Faulty variant: the rest of the destination, up to buf_len, is cleared.
ItoaFinish_ClearsRest(m, b, n, sp) ==
    Returned(WriteBytes(PtrCopy(m, sp.ptr, b, sp.len), b + sp.len,
                        [i \in 1..(n - sp.len) |-> 0]),
             sp.len)

\* The integer entry points after the formatter has returned.
ItoaFinish(m, b, n, sp) ==
    IF NeedsCopy(sp, b)
    THEN Returned(PtrCopy(m, sp.ptr, b, sp.len), sp.len)
    ELSE Returned(m, sp.len)

Finish(o, m, b, n, sp) ==
    IF o \in CheckedOps THEN CheckedFinish(m, b, n, sp)
    ELSE IF o \in FiniteOps THEN FiniteFinish(m, b, n, sp)
    ELSE ItoaFinish(m, b, n, sp)

\* A copy of n bytes that runs from the last byte to the first.
RECURSIVE CopyDescending(_, _, _, _)
CopyDescending(m, src, dst, n) ==
    IF n = 0 THEN m
    ELSE CopyDescending([m EXCEPT ![dst + n - 1] = m[src + n - 1]], src, dst, n - 1)

\* What a build may do with copy_nonoverlapping on overlapping ranges: copy
\* through registers (the bytes arrive intact), copy in descending order
\* (bytes already overwritten are read again), or stop at the precondition
\* check of a build with debug assertions.
UndefinedOutcomes(m, src, dst, n) ==
    { Returned(WriteBytes(m, dst, ReadBytes(m, src, n)), n),
      Returned(CopyDescending(m, src, dst, n), n),
      Panicked(m) }

\* The results the last step of a call may have.
FinishOutcomes(o, m, b, n, sp) ==
    IF Finish(o, m, b, n, sp).undefined
    THEN UndefinedOutcomes(m, sp.ptr, b, sp.len)
    ELSE {Finish(o, m, b, n, sp)}

\* (*buffer_ptr).format(value) / format_finite(value), buffer_ptr = buf.
FloatFormat(o, m, b, v, scratch) ==
    IF o \in CheckedOps THEN ZmijBufferFormat(m, b, v, scratch)
    ELSE ZmijBufferFormatFinite(m, b, v, scratch)

AsBytes(r) == [ptr |-> r.ptr, len |-> r.len]

\* A whole call of a checked float entry point, as a function of the
\* memory it starts from.
RunChecked(m, b, n, v, scratch) ==
    IF Rejects(b, n, ZMIJ_BUFFER_SIZE) THEN Returned(m, 0)
    ELSE LET r == ZmijBufferFormat(m, b, v, scratch)
         IN  CheckedFinish(r.mem, b, n, AsBytes(r))

\* A whole call of a finite-only float entry point.
RunFinite(m, b, n, v, scratch) ==
    IF Rejects(b, n, ZMIJ_BUFFER_SIZE) THEN Returned(m, 0)
    ELSE LET r == ZmijBufferFormatFinite(m, b, v, scratch)
         IN  FiniteFinish(r.mem, b, n, AsBytes(r))

\* A whole call of an integer entry point.
RunItoa(m, b, n, ty, v, end) ==
    IF Rejects(b, n, ITOA_BUFFER_SIZE) THEN Returned(m, 0)
    ELSE LET r == ItoaBufferFormat(m, b, ty, v, end)
         IN  ItoaFinish(r.mem, b, n, AsBytes(r))

\* The layouts the formatter of entry point o may choose for the value v.
Layouts(o, v) ==
    IF o \in ItoaOps THEN ItoaEnds(IntType(o)) ELSE ZmijScratchEnds(v)

\* A whole call of entry point o with a value it accepts.
Run(o, m, b, n, v, layout) ==
    IF o \in CheckedOps THEN RunChecked(m, b, n, v, layout)
    ELSE IF o \in FiniteOps THEN RunFinite(m, b, n, v, layout)
    ELSE RunItoa(m, b, n, IntType(o), v, layout)

(***************************************************************************)
(* The state machine.                                                      *)
(***************************************************************************)
Init ==
    /\ \E f \in Fills : mem = InitialMem(f)
    /\ mem0 = mem
    /\ pc = "idle"
    /\ op = "none"
    /\ value = <<>>
    /\ buf = NULL
    /\ buf_len = 0
    /\ bytes = NoBytes
    /\ ret = NoRet
    /\ ncalls = 0
    /\ prev = NoPrev
    /\ ctx = <<>>

\* The caller is free to make a call.
CanCall == pc = "idle" /\ ncalls < MaxCalls

\* What every entry point does first: the guard returns 0 at once, or the
\* call goes on to the formatter.
Enter(v, b, n, min) ==
    /\ ncalls' = ncalls + 1
    /\ value' = v
    /\ buf' = b
    /\ buf_len' = n
    /\ mem0' = mem
    /\ bytes' = NoBytes
    /\ mem' = mem
    /\ prev' = prev
    /\ ctx' = ctx
    /\ IF Rejects(b, n, min)
       THEN pc' = "done" /\ ret' = 0
       ELSE pc' = "format" /\ ret' = NoRet

zmij_format_f64 ==
    /\ CanCall
    /\ \E v \in F64Finite \cup Nonfinite, b \in BufPtrs, n \in Lens :
          /\ op' = "zmij_format_f64"
          /\ Enter(v, b, n, ZMIJ_BUFFER_SIZE)

zmij_format_f32 ==
    /\ CanCall
    /\ \E v \in F32Finite \cup Nonfinite, b \in BufPtrs, n \in Lens :
          /\ op' = "zmij_format_f32"
          /\ Enter(v, b, n, ZMIJ_BUFFER_SIZE)

zmij_format_finite_f64 ==
    /\ CanCall
    /\ \E v \in F64Finite \cup Nonfinite, b \in BufPtrs, n \in Lens :
          /\ op' = "zmij_format_finite_f64"
          /\ Enter(v, b, n, ZMIJ_BUFFER_SIZE)

zmij_format_finite_f32 ==
    /\ CanCall
    /\ \E v \in F32Finite \cup Nonfinite, b \in BufPtrs, n \in Lens :
          /\ op' = "zmij_format_finite_f32"
          /\ Enter(v, b, n, ZMIJ_BUFFER_SIZE)

rust_itoa_i64 ==
    /\ CanCall
    /\ \E v \in I64Values, b \in BufPtrs, n \in Lens :
          /\ op' = "rust_itoa_i64"
          /\ Enter(v, b, n, ITOA_BUFFER_SIZE)

rust_itoa_u64 ==
    /\ CanCall
    /\ \E v \in U64Values, b \in BufPtrs, n \in Lens :
          /\ op' = "rust_itoa_u64"
          /\ Enter(v, b, n, ITOA_BUFFER_SIZE)

rust_itoa_i32 ==
    /\ CanCall
    /\ \E v \in I32Values, b \in BufPtrs, n \in Lens :
          /\ op' = "rust_itoa_i32"
          /\ Enter(v, b, n, ITOA_BUFFER_SIZE)

rust_itoa_u32 ==
    /\ CanCall
    /\ \E v \in U32Values, b \in BufPtrs, n \in Lens :
          /\ op' = "rust_itoa_u32"
          /\ Enter(v, b, n, ITOA_BUFFER_SIZE)

\* The value is outside the precondition of format_finite.
Breach(o, v) == o \in FiniteOps /\ ~IsFinite(v)

\* The float formatter runs on the caller's memory.
ZmijFormats ==
    /\ pc = "format"
    /\ op \in FloatOps
    /\ IF Breach(op, value)
       THEN \E txt \in UnspecifiedTexts :
               \E scratch \in {Len(txt), ZMIJ_BUFFER_SIZE} :
                  LET r == ZmijBufferFormatBreach(mem, buf, txt, scratch)
                  IN  /\ mem' = r.mem
                      /\ bytes' = AsBytes(r)
       ELSE \E scratch \in ZmijScratchEnds(value) :
               LET r == FloatFormat(op, mem, buf, value, scratch)
               IN  /\ mem' = r.mem
                   /\ bytes' = AsBytes(r)
    /\ pc' = "finish"
    /\ UNCHANGED <<mem0, op, value, buf, buf_len, ret, ncalls, prev, ctx>>

\* The integer formatter runs on the caller's memory.
ItoaFormats ==
    /\ pc = "format"
    /\ op \in ItoaOps
    /\ \E end \in ItoaEnds(IntType(op)) :
          LET r == ItoaBufferFormat(mem, buf, IntType(op), value, end)
          IN  /\ mem' = r.mem
              /\ bytes' = AsBytes(r)
    /\ pc' = "finish"
    /\ UNCHANGED <<mem0, op, value, buf, buf_len, ret, ncalls, prev, ctx>>

\* The pointer comparison, the copy and the return.
Finishes ==
    /\ pc = "finish"
    /\ \E r \in FinishOutcomes(op, mem, buf, buf_len, bytes) :
          /\ mem' = r.mem
          /\ ret' = r.ret
          /\ pc' = IF r.panicked THEN "panicked" ELSE "done"
    /\ UNCHANGED <<mem0, op, value, buf, buf_len, bytes, ncalls, prev, ctx>>

\* The caller has the result; the call's arguments and return value go out
\* of scope and the memory is the caller's again.
Returns ==
    /\ pc = "done"
    /\ pc' = "idle"
    /\ op' = "none"
    /\ value' = <<>>
    /\ buf' = NULL
    /\ buf_len' = 0
    /\ bytes' = NoBytes
    /\ ret' = NoRet
    /\ mem0' = mem
    /\ UNCHANGED <<mem, ncalls, prev, ctx>>

Next ==
    \/ zmij_format_f64
    \/ zmij_format_f32
    \/ zmij_format_finite_f64
    \/ zmij_format_finite_f32
    \/ rust_itoa_i64
    \/ rust_itoa_u64
    \/ rust_itoa_i32
    \/ rust_itoa_u32
    \/ ZmijFormats
    \/ ItoaFormats
    \/ Finishes
    \/ Returns

Spec == Init /\ [][Next]_vars

(***************************************************************************)
(* Sequences of calls on one buffer.  The caller makes up to MaxSeq calls, *)
(* each with a destination of at least the entry point's minimum size and  *)
(* a value the entry point accepts, and keeps the result of the call       *)
(* before.                                                                 *)
(***************************************************************************)
\* The minimum each entry point's guard tests.
Minimum(o) == IF o \in FloatOps THEN ZMIJ_BUFFER_SIZE ELSE ITOA_BUFFER_SIZE

\* A long and a short text for each entry point; a literal on the checked
\* ones.
SeqValues(o) ==
    CASE o = "zmij_format_f64"        -> {Fin(FALSE, 123456789, 0), Fin(FALSE, 1, -1), NaN(FALSE)}
      [] o = "zmij_format_f32"        -> {Fin(TRUE, 85, -1), Inf(TRUE)}
      [] o = "zmij_format_finite_f64" -> {Fin(FALSE, 3, -3), Fin(TRUE, 0, 0)}
      [] o = "zmij_format_finite_f32" -> {Fin(FALSE, 1, 10), Fin(FALSE, 1, 0)}
      [] o = "rust_itoa_i64"          -> {<<0, 0, 0, 32768>>, <<42, 0, 0, 0>>}
      [] o = "rust_itoa_u64"          -> {<<65535, 65535, 65535, 65535>>, <<0, 0, 0, 0>>}
      [] o = "rust_itoa_i32"          -> {<<0, 32768>>, <<65494, 65535>>}
      [] o = "rust_itoa_u32"          -> {<<65535, 65535>>, <<42, 0>>}

\* The caller makes the next call of the sequence.
SeqCall ==
    /\ pc = "idle"
    /\ ncalls < MaxSeq
    /\ \E o \in Ops :
          \E v \in SeqValues(o) :
             /\ op' = o
             /\ Enter(v, Base, Minimum(o), Minimum(o))

\* The caller takes the result of the call and keeps it.
SeqReturns ==
    /\ pc = "done"
    /\ prev' = [op |-> op, value |-> value, ret |-> ret,
                out |-> ReadBytes(mem, buf, ret)]
    /\ pc' = "idle"
    /\ op' = "none"
    /\ value' = <<>>
    /\ buf' = NULL
    /\ buf_len' = 0
    /\ bytes' = NoBytes
    /\ ret' = NoRet
    /\ mem0' = mem
    /\ UNCHANGED <<mem, ncalls, ctx>>

SeqNext ==
    \/ SeqCall
    \/ ZmijFormats
    \/ ItoaFormats
    \/ Finishes
    \/ SeqReturns

SeqSpec == Init /\ [][SeqNext]_vars

(***************************************************************************)
(* Concurrent calls.  Each execution context makes one call on a buffer of *)
(* its own; the buffers lie side by side, with no byte between them, after *)
(* the formatter's static literals.  ctx[t] is the call of context t: the  *)
(* position it has reached, its arguments, the formatter's span and the    *)
(* value returned.  The steps of the contexts interleave in any order.     *)
(***************************************************************************)
Threads == 1..NThreads

ConcBase   == MemTop + GuardLen + 1
Buffer(t)  == ConcBase + (t - 1) * ITOA_BUFFER_SIZE
ConcTop    == Buffer(NThreads) + ITOA_BUFFER_SIZE + GuardLen - 1
ConcAddrs  == 1..ConcTop

ConcInitialMem(fill) ==
    [a \in ConcAddrs |->
        IF a \in Addrs THEN InitialMem(fill)[a]
        ELSE IF fill = 0 THEN 128 + (a % 64)
        ELSE fill]

\* The calls a context may make.
ConcCalls ==
    { [op |-> "zmij_format_f64", value |-> NaN(FALSE)],
      [op |-> "zmij_format_f32", value |-> Fin(TRUE, 85, -1)],
      [op |-> "zmij_format_finite_f64", value |-> Fin(FALSE, 1, -1)],
      [op |-> "rust_itoa_i64", value |-> <<0, 0, 0, 32768>>],
      [op |-> "rust_itoa_u32", value |-> <<42, 0>>] }

IdleCtx ==
    [pc |-> "idle", op |-> "none", value |-> <<>>, buf |-> NULL,
     buf_len |-> 0, bytes |-> NoBytes, ret |-> NoRet]

ConcInit ==
    /\ \E f \in Fills : mem = ConcInitialMem(f)
    /\ mem0 = mem
    /\ ctx = [t \in Threads |-> IdleCtx]
    /\ pc = "idle"
    /\ op = "none"
    /\ value = <<>>
    /\ buf = NULL
    /\ buf_len = 0
    /\ bytes = NoBytes
    /\ ret = NoRet
    /\ ncalls = 0
    /\ prev = NoPrev

\* Context t enters an entry point: the guard.
ConcCall(t) ==
    /\ ctx[t].pc = "idle"
    /\ \E c \in ConcCalls :
          LET b == Buffer(t)
              n == Minimum(c.op)
              rejected == Rejects(b, n, Minimum(c.op))
          IN  ctx' = [ctx EXCEPT ![t] =
                         [pc |-> IF rejected THEN "done" ELSE "format",
                          op |-> c.op, value |-> c.value,
                          buf |-> b, buf_len |-> n, bytes |-> NoBytes,
                          ret |-> IF rejected THEN 0 ELSE NoRet]]
    /\ UNCHANGED <<mem, mem0, pc, op, value, buf, buf_len, bytes, ret,
                   ncalls, prev>>

\* The formatter runs in context t.
ConcFormats(t) ==
    /\ ctx[t].pc = "format"
    /\ LET c == ctx[t]
       IN  \E layout \in Layouts(c.op, c.value) :
              LET r == IF c.op \in FloatOps
                       THEN FloatFormat(c.op, mem, c.buf, c.value, layout)
                       ELSE ItoaBufferFormat(mem, c.buf, IntType(c.op), c.value, layout)
              IN  /\ mem' = r.mem
                  /\ ctx' = [ctx EXCEPT ![t].bytes = AsBytes(r),
                                        ![t].pc = "finish"]
    /\ UNCHANGED <<mem0, pc, op, value, buf, buf_len, bytes, ret, ncalls, prev>>

\* The pointer comparison, the copy and the return in context t.
ConcFinishes(t) ==
    /\ ctx[t].pc = "finish"
    /\ \E r \in FinishOutcomes(ctx[t].op, mem, ctx[t].buf, ctx[t].buf_len, ctx[t].bytes) :
          /\ mem' = r.mem
          /\ ctx' = [ctx EXCEPT ![t].ret = r.ret,
                                ![t].pc = IF r.panicked THEN "panicked" ELSE "done"]
    /\ UNCHANGED <<mem0, pc, op, value, buf, buf_len, bytes, ret, ncalls, prev>>

ConcNext ==
    \E t \in Threads :
        \/ ConcCall(t)
        \/ ConcFormats(t)
        \/ ConcFinishes(t)

ConcSpec == ConcInit /\ [][ConcNext]_vars

(***************************************************************************)
(* The copy step on its own.  The entry points that copy are called with a *)
(* valid destination, and the formatter's result is an input: a text it    *)
(* has written anywhere inside its buffer (at the start, right-aligned, or *)
(* in between) or, on the float entry points, one of its static literals.  *)
(* The last step of the entry point then runs on that span.                *)
(***************************************************************************)
CopyOps == CheckedOps \cup ItoaOps

SpanTexts ==
    { <<45, 57>>,
      <<49, 50, 51, 52>>,
      Ascii(<<9,2,2,3,3,7,2,0,3,6,8,5,4,7,7,5,8,0,7>>) }

\* Offsets in the formatter's buffer at which a text of n bytes may start.
SpanOffsets(o, n) ==
    {off \in {0, 1, n - 1, n, Minimum(o) - n} : off >= 0 /\ off + n <= Minimum(o)}

CopyCall ==
    /\ pc = "idle"
    /\ ncalls < MaxCalls
    /\ \E o \in CopyOps :
          \E v \in SeqValues(o) :
             /\ op' = o
             /\ Enter(v, Base, Minimum(o), Minimum(o))

\* The formatter returns a span inside its buffer.
FormatsInBuffer ==
    /\ pc = "format"
    /\ \E txt \in SpanTexts :
          \E off \in SpanOffsets(op, Len(txt)) :
             /\ mem' = WriteBytes(mem, buf + off, txt)
             /\ bytes' = [ptr |-> buf + off, len |-> Len(txt)]
    /\ pc' = "finish"
    /\ UNCHANGED <<mem0, op, value, buf, buf_len, ret, ncalls, prev, ctx>>

\* The float formatter returns a static literal.
FormatsLiteral ==
    /\ pc = "format"
    /\ op \in CheckedOps
    /\ \E v \in Nonfinite : bytes' = AsBytes(NonfiniteLiteral(v))
    /\ pc' = "finish"
    /\ UNCHANGED <<mem, mem0, op, value, buf, buf_len, ret, ncalls, prev, ctx>>

CopyNext ==
    \/ CopyCall
    \/ FormatsInBuffer
    \/ FormatsLiteral
    \/ Finishes

CopySpec == Init /\ [][CopyNext]_vars

(***************************************************************************)
(* The claims.                                                             *)
(***************************************************************************)
\* The minimum destination size the specification gives each entry point.
SpecMinimum(o) == IF o \in FloatOps THEN 24 ELSE 40

\* A call is under way or has returned.
Called == pc # "idle"

\* The call was made with a destination the contract accepts.
ValidCall == Called /\ buf # NULL /\ buf_len >= SpecMinimum(op)

\* The value is one the entry point accepts: finite, on the finite-only
\* entry points.
Accepted == op \in FiniteOps => IsFinite(value)

\* The caller's view of the result: buffer[0..ret).
Output == ReadBytes(mem, buf, ret)

\* C1: a call with a null destination, or with buf_len below the type's
\* minimum, returns 0 and writes nothing: every byte of memory is as it was
\* before the call.
C1_RejectedCallWritesNothing ==
    (Called /\ (buf = NULL \/ buf_len < SpecMinimum(op)))
        => (pc = "done" /\ ret = 0 /\ mem = mem0)

C1_Witness ==
    /\ pc = "done" /\ ret = 0
    /\ op = "rust_itoa_i64" /\ buf = NULL /\ buf_len >= 40

\* The text the specification gives a value: the token of a non-finite
\* float, else the formatter's decimal text.
SpecText(o, v) ==
    IF o \in ItoaOps THEN ItoaText(IntType(o), v)
    ELSE IF v.cls = "nan" THEN <<78, 97, 78>>
    ELSE IF v.cls = "inf" THEN (IF v.neg THEN <<45, 105, 110, 102>> ELSE <<105, 110, 102>>)
    ELSE ZmijText(v)

\* C2: a call with a non-null destination of at least the minimum size
\* succeeds: 0 < ret <= buf_len and buffer[0..ret) is the ASCII text of the
\* value.
C2_ValidCallSucceeds ==
    (ValidCall /\ Accepted /\ pc = "done")
        => LET out == Output
           IN  /\ 0 < ret
               /\ ret <= buf_len
               /\ out = SpecText(op, value)
               /\ \A i \in 1..ret : out[i] < 128

C2_Witness ==
    /\ ValidCall /\ pc = "done"
    /\ op = "zmij_format_finite_f32" /\ buf_len = 24
    /\ Output = <<45, 52, 50, 46, 53>>

\* C3: at every step of every call, every byte outside [buf, buf + buf_len)
\* is as it was before the call.
C3_NoWriteOutsideBuffer ==
    \A a \in Addrs :
        ~(buf # NULL /\ a >= buf /\ a < buf + buf_len) => mem[a] = mem0[a]

\* The formatter's scratch stores have reached the last byte of a 24-byte
\* destination; the call has not yet returned.
C3_Witness ==
    /\ pc = "finish" /\ op \in FloatOps /\ buf_len = 24
    /\ bytes.len < 24
    /\ mem[buf + 23] # mem0[buf + 23]

\* C4: the minimum is exactly 24 bytes for the float entry points and 40
\* for the integer ones, whatever the integer width: 23 (floats) and any
\* length in 1..39 (integers) is rejected with 0, 24 and 40 succeed.
C4_MinimumSizes ==
    (Called /\ buf # NULL)
        => /\ (op \in FloatOps /\ buf_len = 23) => (pc = "done" /\ ret = 0)
           /\ (op \in FloatOps /\ buf_len = 24) => (pc = "done" => ret > 0)
           /\ (op \in ItoaOps /\ buf_len \in 1..39) => (pc = "done" /\ ret = 0)
           /\ (op \in ItoaOps /\ buf_len = 40) => (pc = "done" => ret > 0)

\* A 32-bit call whose 11-byte text would fit its 11-byte buffer is
\* rejected all the same.
C4_Witness ==
    /\ pc = "done" /\ op = "rust_itoa_i32" /\ buf # NULL
    /\ buf_len = 11 /\ Len(ItoaText("i32", value)) = 11
    /\ ret = 0

\* C5: for the four integer types, parsing buffer[0..ret) as a decimal
\* integer of the same type gives back exactly the value formatted.
C5_IntegerRoundTrip ==
    (ValidCall /\ pc = "done" /\ op \in ItoaOps)
        => ParseInt(IntType(op), Output) = Parsed(value)

C5_Witness ==
    /\ ValidCall /\ pc = "done" /\ op = "rust_itoa_u64"
    /\ value = <<65535, 65535, 65535, 65535>>
    /\ ret = 20

\* C6: integer text is the minimal-digit decimal form: a leading '-'
\* exactly for negative values, digits everywhere else, no leading zero
\* unless the value is zero, and exactly "0" for zero.
C6_MinimalDecimalForm ==
    (ValidCall /\ pc = "done" /\ op \in ItoaOps)
        => LET neg   == IsNegative(IntType(op), value)
               first == IF neg THEN 2 ELSE 1
               out   == Output
           IN  /\ ret >= first
               /\ (out[1] = 45) <=> neg
               /\ \A i \in first..ret : out[i] \in 48..57
               /\ out[first] = 48 => (IsZero(value) /\ ret = 1)
               /\ IsZero(value) => out = <<48>>

C6_Witness ==
    /\ ValidCall /\ pc = "done" /\ op = "rust_itoa_i32"
    /\ value = <<65494, 65535>>
    /\ Output = <<45, 52, 50>>

I64MinText == <<45>> \o Ascii(<<9,2,2,3,3,7,2,0,3,6,8,5,4,7,7,5,8,0,8>>)
I64MaxText == Ascii(<<9,2,2,3,3,7,2,0,3,6,8,5,4,7,7,5,8,0,7>>)
U64MaxText == Ascii(<<1,8,4,4,6,7,4,4,0,7,3,7,0,9,5,5,1,6,1,5>>)
I32MinText == <<45>> \o Ascii(<<2,1,4,7,4,8,3,6,4,8>>)
I32MaxText == Ascii(<<2,1,4,7,4,8,3,6,4,7>>)
U32MaxText == Ascii(<<4,2,9,4,9,6,7,2,9,5>>)

\* C7: the extreme values of each integer type are rendered exactly.
C7_IntegerExtremes ==
    (ValidCall /\ pc = "done" /\ op \in ItoaOps)
        => /\ (op = "rust_itoa_i64" /\ value = <<0, 0, 0, 32768>>)
                => Output = I64MinText
           /\ (op = "rust_itoa_i64" /\ value = <<65535, 65535, 65535, 32767>>)
                => Output = I64MaxText
           /\ (op = "rust_itoa_u64" /\ value = <<65535, 65535, 65535, 65535>>)
                => Output = U64MaxText
           /\ (op = "rust_itoa_i32" /\ value = <<0, 32768>>)
                => Output = I32MinText
           /\ (op = "rust_itoa_i32" /\ value = <<65535, 32767>>)
                => Output = I32MaxText
           /\ (op = "rust_itoa_u32" /\ value = <<65535, 65535>>)
                => Output = U32MaxText

C7_Witness ==
    /\ ValidCall /\ pc = "done" /\ op = "rust_itoa_i64"
    /\ value = <<0, 0, 0, 32768>>
    /\ ret = 20

\* C8: on the checked float entry points NaN gives "NaN" (3 bytes), positive
\* infinity "inf" (3 bytes) and negative infinity "-inf" (4 bytes), and the
\* bytes are in the caller's buffer.
C8_NonfiniteTokens ==
    (ValidCall /\ pc = "done" /\ op \in CheckedOps)
        => /\ value.cls = "nan"
                => (ret = 3 /\ ReadBytes(mem, buf, 3) = <<78, 97, 78>>)
           /\ (value.cls = "inf" /\ ~value.neg)
                => (ret = 3 /\ ReadBytes(mem, buf, 3) = <<105, 110, 102>>)
           /\ (value.cls = "inf" /\ value.neg)
                => (ret = 4 /\ ReadBytes(mem, buf, 4) = <<45, 105, 110, 102>>)

C8_Witness ==
    /\ ValidCall /\ pc = "done" /\ op = "zmij_format_f32"
    /\ value.cls = "inf" /\ value.neg
    /\ ret = 4

\* C9: for a finite value and equal buffers, the checked entry point and
\* the finite-only entry point return the same length and leave the same
\* bytes in buffer[0..length).
C9_CheckedEqualsFinite ==
    (ValidCall /\ pc = "done" /\ op \in FloatOps /\ IsFinite(value))
        => \A scratch \in ZmijScratchEnds(value) :
              LET other == IF op \in CheckedOps
                           THEN RunFinite(mem0, buf, buf_len, value, scratch)
                           ELSE RunChecked(mem0, buf, buf_len, value, scratch)
              IN  /\ other.ret = ret
                  /\ ReadBytes(other.mem, buf, other.ret) = Output

C9_Witness ==
    /\ ValidCall /\ pc = "done" /\ op = "zmij_format_f64"
    /\ value = Fin(FALSE, 123456789, 0)
    /\ ret = 11

\* C10: for a finite value, parsing the text a checked float entry point
\* leaves in buffer[0..ret) gives back exactly the value.
C10_FloatRoundTrip ==
    (ValidCall /\ pc = "done" /\ op \in CheckedOps /\ IsFinite(value))
        => ParseFloat(Output) = Parsed(value)

C10_Witness ==
    /\ ValidCall /\ pc = "done" /\ op = "zmij_format_f64"
    /\ value = Fin(TRUE, 0, 0)
    /\ Output = <<45, 48, 46, 48>>

\* C11: the checked float entry points render the two zeros distinctly:
\* positive zero gives exactly "0.0" (3 bytes), negative zero exactly "-0.0"
\* (4 bytes); the sign of zero is kept.
C11_SignedZeros ==
    (ValidCall /\ pc = "done" /\ op \in CheckedOps)
        => /\ value = Fin(FALSE, 0, 0)
                => (ret = 3 /\ Output = <<48, 46, 48>>)
           /\ value = Fin(TRUE, 0, 0)
                => (ret = 4 /\ Output = <<45, 48, 46, 48>>)

C11_Witness ==
    /\ ValidCall /\ pc = "done" /\ op = "zmij_format_f32"
    /\ value = Fin(TRUE, 0, 0)
    /\ ret = 4 /\ mem[buf] = 45

\* C12: a finite-only entry point called with NaN or an infinity and a
\* destination of at least 24 bytes still returns normally: the call goes on
\* to its return without a panic, the length returned is in (0, buf_len],
\* and every byte outside the caller's buffer is as it was before the call.
C12_BreachIsMemorySafe ==
    (Called /\ Breach(op, value) /\ buf # NULL /\ buf_len >= 24)
        => /\ pc \in {"format", "finish", "done"}
           /\ pc = "format" => ENABLED ZmijFormats
           /\ pc = "finish" => ENABLED Finishes
           /\ pc = "done" => (0 < ret /\ ret <= buf_len)
           /\ \A a \in Addrs :
                 (a < buf \/ a >= buf + buf_len) => mem[a] = mem0[a]

C12_Witness ==
    /\ pc = "done" /\ op = "zmij_format_finite_f64"
    /\ value.cls = "nan" /\ buf_len = 24
    /\ ret = 24 /\ mem[buf + 23] # mem0[buf + 23]

\* C13: no call of a checked float entry point or of an integer entry point
\* panics, whatever the value, the pointer and buf_len.  The literal-copy
\* branch is reached only with buf_len >= 24 and a literal of at most 4
\* bytes, so the slice index out[..bytes.len()] is in range.  No step of a
\* call ends in a panic, and a call that has returned has returned a byte
\* count.
C13_NoPanic ==
    (Called /\ op \in CheckedOps \cup ItoaOps)
        => /\ pc \in {"format", "finish", "done"}
           /\ pc = "finish" => ~Finish(op, mem, buf, buf_len, bytes).panicked
           /\ pc = "done" => ret >= 0
           /\ (pc = "finish" /\ op \in CheckedOps /\ NeedsCopy(bytes, buf))
                => (buf_len >= 24 /\ bytes.len <= 4 /\ bytes.len <= buf_len)

\* The literal "-inf" has been copied into a destination of the minimum
\* size.
C13_Witness ==
    /\ pc = "done" /\ op = "zmij_format_f64" /\ buf_len = 24
    /\ value = Inf(TRUE)
    /\ bytes.ptr = NegInfAddr
    /\ ReadBytes(mem, buf, 4) = NegInfBytes

\* C14: in any sequence of calls on the same buffer, the length returned
\* and the bytes buffer[0..length) of a successful call are those of the
\* same call made alone on fresh memory, whatever that memory holds and
\* whatever layout the formatter chooses; and a call that repeats the entry
\* point and value of the call before it repeats its result.
C14_Stateless ==
    (ValidCall /\ Accepted /\ pc = "done")
        => /\ \A f \in Fills :
                 \A layout \in Layouts(op, value) :
                    LET alone == Run(op, InitialMem(f), buf, buf_len, value, layout)
                    IN  /\ alone.ret = ret
                        /\ ReadBytes(alone.mem, buf, alone.ret) = Output
           /\ (prev.op = op /\ prev.value = value)
                 => (prev.ret = ret /\ prev.out = Output)

\* A short text written over the longer text of a call to another entry
\* point.
C14_Witness ==
    /\ ValidCall /\ pc = "done" /\ ncalls = 2
    /\ prev.op \in ItoaOps /\ op \in FloatOps
    /\ prev.ret > ret
    /\ ReadBytes(mem0, buf, prev.ret) = prev.out

\* The same call made twice in a row.
C14_RepeatWitness ==
    /\ ValidCall /\ pc = "done" /\ ncalls = 2
    /\ prev.op = op /\ prev.value = value /\ ret > 0

\* The bytes of the buffer of context t, in the memory m.
OwnBuffer(m, t) == ReadBytes(m, Buffer(t), ctx[t].buf_len)

\* The call of context t made alone on the memory the contexts started
\* from, once for each layout its formatter may choose.
AloneRuns(t) ==
    { Run(ctx[t].op, mem0, ctx[t].buf, ctx[t].buf_len, ctx[t].value, layout) :
        layout \in Layouts(ctx[t].op, ctx[t].value) }

\* C15: when several contexts call concurrently, each on a buffer of its
\* own, then under every interleaving of their steps each call returns the
\* length and leaves the text it would when run alone, its whole buffer is
\* as a run alone leaves it, and no call writes outside its own buffer: the
\* buffer of a context that has not yet called, or whose formatter has not
\* yet run, is untouched, and so is every byte outside the buffers.
C15_ConcurrentCallsIndependent ==
    /\ \A t \in Threads :
          /\ ctx[t].pc = "done"
                => /\ \A alone \in AloneRuns(t) :
                         /\ alone.ret = ctx[t].ret
                         /\ ReadBytes(alone.mem, ctx[t].buf, ctx[t].ret)
                               = ReadBytes(mem, ctx[t].buf, ctx[t].ret)
                   /\ \E alone \in AloneRuns(t) :
                         OwnBuffer(alone.mem, t) = OwnBuffer(mem, t)
          /\ ctx[t].pc \in {"idle", "format"}
                => ReadBytes(mem, Buffer(t), ITOA_BUFFER_SIZE)
                      = ReadBytes(mem0, Buffer(t), ITOA_BUFFER_SIZE)
          /\ ctx[t].pc # "panicked"
    /\ \A a \in ConcAddrs :
          (\A t \in Threads :
              a < Buffer(t) \/ a >= Buffer(t) + ctx[t].buf_len)
                => mem[a] = mem0[a]

\* Context 2 has run its whole call, copying a static literal, between two
\* steps of context 1, whose digits lie right-aligned in the neighbouring
\* buffer and are not yet copied.
C15_Witness ==
    /\ ctx[1].pc = "finish" /\ ctx[1].op = "rust_itoa_i64"
    /\ ctx[1].bytes.ptr > Buffer(1)
    /\ ctx[1].bytes.ptr + ctx[1].bytes.len = Buffer(2)
    /\ ctx[2].pc = "done" /\ ctx[2].value = NaN(FALSE) /\ ctx[2].ret = 3
    /\ ReadBytes(mem, Buffer(2), 3) = NanBytes

\* C16: on the checked float entry points the comparison of the span's
\* start with the buffer's start separates the two cases exactly.  For a
\* finite value the span starts at the buffer's start and the last step
\* writes nothing; the copy branch is taken exactly when the value is NaN or
\* an infinity, and then the literal's bytes are written at the start of the
\* buffer.  The finite-only entry points write nothing after the formatter
\* has returned and return the span's length.  (The calls are those the
\* guard lets through to the formatter.)
C16_InPlaceTest ==
    (ValidCall /\ pc \in {"finish", "done"})
        => /\ op \in CheckedOps
                => /\ NeedsCopy(bytes, buf) <=> ~IsFinite(value)
                   /\ IsFinite(value) => bytes.ptr = buf
                   /\ ~IsFinite(value) => AsBytes(NonfiniteLiteral(value)) = bytes
           /\ (op \in CheckedOps /\ pc = "finish")
                => \A r \in {Finish(op, mem, buf, buf_len, bytes)} :
                      /\ IsFinite(value) => r.mem = mem
                      /\ ~IsFinite(value)
                            => r.mem = WriteBytes(mem, buf, ReadBytes(mem, bytes.ptr, bytes.len))
                      /\ r.ret = bytes.len
           /\ (op \in FiniteOps /\ pc = "finish")
                => \A r \in {Finish(op, mem, buf, buf_len, bytes)} :
                      r.mem = mem /\ r.ret = bytes.len
           /\ (op \in FloatOps /\ pc = "done") => ret = bytes.len

\* The copy branch has been taken: the span was the literal "inf".
C16_Witness ==
    /\ pc = "done" /\ op = "zmij_format_f32"
    /\ value = Inf(FALSE)
    /\ bytes = [ptr |-> InfAddr, len |-> 3]
    /\ ReadBytes(mem, buf, 3) = InfBytes
    /\ ReadBytes(mem0, buf, 3) # InfBytes

\* The span of the call under way does not start at the buffer's start, and
\* the last step is about to run on it.
CopyCase == pc = "finish" /\ op \in CopyOps /\ bytes.ptr # buf

\* Whatever the last step does, buffer[0..length) ends up holding the bytes
\* the span holds now, and their number is returned.
SpanArrivesIntact ==
    \A r \in FinishOutcomes(op, mem, buf, buf_len, bytes) :
        /\ ~r.panicked
        /\ r.ret = bytes.len
        /\ ReadBytes(r.mem, buf, bytes.len) = ReadBytes(mem, bytes.ptr, bytes.len)

C18_FrameBeyondMinimum ==
    (ValidCall /\ buf_len > SpecMinimum(op))
        => \A i \in SpecMinimum(op)..(buf_len - 1) :
              mem[buf + i] = mem0[buf + i]

\* A float call with a destination of more than 24 bytes has returned; the
\* formatter's scratch stores have changed the byte at index 23, after the
\* end of the text.
C18_Witness ==
    /\ ValidCall /\ pc = "done" /\ op \in CheckedOps
    /\ buf_len > 24 /\ ret > 0 /\ ret < 23
    /\ mem[buf + 23] # mem0[buf + 23]
    /\ mem[buf + 24] = mem0[buf + 24]

\* An integer call with a destination of more than 40 bytes has returned;
\* digits left by the formatter at the end of the 40-byte region remain
\* there, after the text copied to the front.
C18_ItoaWitness ==
    /\ ValidCall /\ pc = "done" /\ op \in ItoaOps
    /\ buf_len > 40 /\ ret > 0
    /\ mem[buf + 39] # mem0[buf + 39]
    /\ mem[buf + 40] = mem0[buf + 40]

====
